---- MODULE Spec2Model ----
(***************************************************************************)
(* Model of HashMap<TKey, TValue, THash> (src/hash_map.h): a chained hash  *)
(* table with a cached first-occupied-bucket cursor and a load-factor      *)
(* driven grow/shrink policy.                                              *)
(*                                                                         *)
(* A map object is a record                                                *)
(*   mContainer     : sequence of buckets; bucket index i of the C++       *)
(*                    vector is position i+1 of the sequence; a bucket is  *)
(*                    a sequence of nodes <<key, value>>, head first       *)
(*   mSize          : the size counter                                     *)
(*   mBeginIterator : bucket index the cursor refers to                    *)
(* An iterator is a record                                                 *)
(*   mContainerIterator : bucket index                                     *)
(*   mBucketIterator    : position in the chain, 1 = head,                 *)
(*                        Len(chain)+1 = the chain's end()                 *)
(***************************************************************************)
EXTENDS Integers, Sequences, FiniteSets, TLC

\* ---------------------------------------------------------------- constants
initialSize == 128

maxLoadFactor == 4

\* ------------------------------------------------------------------- bounds
\* largest argument given to resize()
MaxResize == 3

\* longest sequence handed to the range / initializer-list constructor
MaxListLen == 2

\* number of calls the two-map program makes
MaxSteps == 3

\* resize() calls followed while they nest (the code nests at most three)
MaxDepth == 3

\* keys, with TKey = int; 1 and 33 share a bucket for 16 and 32 buckets,
\* 127 lands in the last bucket of every power-of-two table up to 128
Keys == {1, 33, 127}

\* values that callers store; TValue{} is DefaultValue
Values == {1, 2}

DefaultValue == 0

MapIds == {"m", "c"}

VARIABLES
    maps,      \* the map objects: [MapIds -> map record]
    crashed,   \* TRUE once an operation has hit a division by zero / bad pointer
    last,      \* the operation that has just returned, with its result
    ref,       \* reference abstract maps: for each map a function from its present keys to values
    steps,     \* calls made so far by the two-map program
    order,     \* the keys of map "m" in the order of the insert calls that added them
    stack      \* the resize() calls in progress on map "m", innermost last

vars == <<maps, crashed, last, ref, steps, order, stack>>

\* ------------------------------------------------------------------ helpers
\* THash = std::hash<int>: the identity on the keys used here
mHasher(key) == key

Min(a, b) == IF a <= b THEN a ELSE b

\* mContainer.size()
BucketCount(m) == Len(m.mContainer)

\* mContainer[i]
Bucket(m, i) == m.mContainer[i + 1]

\* a vector of n empty forward_lists
EmptyContainer(n) == [i \in 1..n |-> <<>>]

\* size()
size(m) == m.mSize

\* empty()
empty(m) == m.mSize = 0

\* clear(): a fresh table of initialSize buckets, cursor on the last bucket
clear(m) ==
    [mContainer     |-> EmptyContainer(initialSize),
     mSize          |-> 0,
     mBeginIterator |-> initialSize - 1]

\* HashMap(THash hash): clear()
HashMap == clear([mContainer |-> <<>>, mSize |-> 0, mBeginIterator |-> 0])

\* ---------------------------------------------------------------- iterators
\* end(): the end position of the last bucket
end(m) ==
    [mContainerIterator |-> BucketCount(m) - 1,
     mBucketIterator    |-> Len(Bucket(m, BucketCount(m) - 1)) + 1]

\* begin(): the head position of the cursor's bucket
begin(m) ==
    [mContainerIterator |-> m.mBeginIterator,
     mBucketIterator    |-> 1]

\* iterator::operator*
deref(m, it) == Bucket(m, it.mContainerIterator)[it.mBucketIterator]

\* the least element of a non-empty set of bucket indices
Least(S) == CHOOSE x \in S : \A y \in S : x <= y

\* mutant: the loop does not test for empty buckets and runs to the last one
SkipEmptyToLast(m, b) == BucketCount(m) - 1

\* the while loop of operator++ from bucket b on: the first bucket that is
\* the last one or is not empty
SkipEmpty(m, b) ==
    Least({j \in b..(BucketCount(m) - 1) :
              j + 1 = BucketCount(m) \/ Bucket(m, j) # <<>>})

\* iterator::operator++
operatorInc(m, it) ==
    IF /\ it.mBucketIterator + 1 = Len(Bucket(m, it.mContainerIterator)) + 1
       /\ it.mContainerIterator + 1 # BucketCount(m)
    THEN [mContainerIterator |-> SkipEmpty(m, it.mContainerIterator + 1),
          mBucketIterator    |-> 1]
    ELSE [mContainerIterator |-> it.mContainerIterator,
          mBucketIterator    |-> it.mBucketIterator + 1]

\* the nodes visited by  for (auto& i : map)  from iterator it on
RECURSIVE Range(_, _)
Range(m, it) ==
    IF it = end(m)
    THEN <<>>
    ELSE <<deref(m, it)>> \o Range(m, operatorInc(m, it))

\* find(key): scan the chain of bucket hash % N for the key
RECURSIVE ScanChain(_, _, _)
ScanChain(chain, key, p) ==
    IF p > Len(chain) THEN 0
    ELSE IF chain[p][1] = key THEN p
    ELSE ScanChain(chain, key, p + 1)

find(m, key) ==
    LET keyHash == mHasher(key) % BucketCount(m)
        p       == ScanChain(Bucket(m, keyHash), key, 1)
    IN  IF p # 0
        THEN [mContainerIterator |-> keyHash, mBucketIterator |-> p]
        ELSE end(m)

\* ------------------------------------------------------- insert and resize
\* insert and resize return [map |-> the map afterwards,
\*                           resizes |-> number of resize() calls made]
RECURSIVE insert(_, _), resize(_, _), InsertAll(_, _, _)

\* the loop  for (i : nodes) target.insert(i)
InsertAll(target, nodes, n) ==
    IF nodes = <<>>
    THEN [map |-> target, resizes |-> n]
    ELSE LET r == insert(target, Head(nodes))
         IN  InsertAll(r.map, Tail(nodes), n + r.resizes)

\* mutant: insert without the lookup for an existing key
insertNoFind(m, node) ==
    LET keyHash == mHasher(node[1]) % BucketCount(m)
        pushed  == [m EXCEPT
                      !.mContainer[keyHash + 1] = <<node>> \o @,
                      !.mSize = @ + 1,
                      !.mBeginIterator = Min(@, keyHash)]
    IN  IF maxLoadFactor * size(pushed) >= BucketCount(pushed)
        THEN resize(pushed, BucketCount(pushed) * maxLoadFactor)
        ELSE [map |-> pushed, resizes |-> 0]

\* mutant: insert that overwrites the value of an existing key
insertOrAssign(m, node) ==
    IF find(m, node[1]) # end(m)
    THEN [map |-> [m EXCEPT !.mContainer[find(m, node[1]).mContainerIterator + 1]
                                        [find(m, node[1]).mBucketIterator][2] = node[2]],
          resizes |-> 0]
    ELSE insertNoFind(m, node)

\* mutant: the cursor is set to the new entry's bucket, without std::min
insertCursorNoMin(m, node) ==
    IF find(m, node[1]) # end(m)
    THEN [map |-> m, resizes |-> 0]
    ELSE LET keyHash == mHasher(node[1]) % BucketCount(m)
             pushed  == [m EXCEPT
                           !.mContainer[keyHash + 1] = <<node>> \o @,
                           !.mSize = @ + 1,
                           !.mBeginIterator = keyHash]
         IN  IF maxLoadFactor * size(pushed) >= BucketCount(pushed)
             THEN resize(pushed, BucketCount(pushed) * maxLoadFactor)
             ELSE [map |-> pushed, resizes |-> 0]

\* mutant: the new entry is put at the tail of its chain
insertAtTail(m, node) ==
    IF find(m, node[1]) # end(m)
    THEN [map |-> m, resizes |-> 0]
    ELSE LET keyHash == mHasher(node[1]) % BucketCount(m)
             pushed  == [m EXCEPT
                           !.mContainer[keyHash + 1] = @ \o <<node>>,
                           !.mSize = @ + 1,
                           !.mBeginIterator = Min(@, keyHash)]
         IN  IF maxLoadFactor * size(pushed) >= BucketCount(pushed)
             THEN resize(pushed, BucketCount(pushed) * maxLoadFactor)
             ELSE [map |-> pushed, resizes |-> 0]

\* mutant: insert without the grow check
insertNoGrow(m, node) ==
    IF find(m, node[1]) # end(m)
    THEN [map |-> m, resizes |-> 0]
    ELSE LET keyHash == mHasher(node[1]) % BucketCount(m)
         IN  [map |-> [m EXCEPT
                         !.mContainer[keyHash + 1] = <<node>> \o @,
                         !.mSize = @ + 1,
                         !.mBeginIterator = Min(@, keyHash)],
              resizes |-> 0]

insert(m, node) ==
    IF find(m, node[1]) # end(m)
    THEN [map |-> m, resizes |-> 0]
    ELSE LET keyHash == mHasher(node[1]) % BucketCount(m)
             pushed  == [m EXCEPT
                           !.mContainer[keyHash + 1] = <<node>> \o @,
                           !.mSize = @ + 1,
                           !.mBeginIterator = Min(@, keyHash)]
         IN  IF maxLoadFactor * size(pushed) >= BucketCount(pushed)
             THEN resize(pushed, BucketCount(pushed) * maxLoadFactor)
             ELSE [map |-> pushed, resizes |-> 0]

\* mutant: the bucket vector is resized in place, nothing is re-hashed
resizeNoRehash(m, newSize) ==
    [map     |-> [mContainer     |-> [i \in 1..newSize |->
                                        IF i <= BucketCount(m) THEN m.mContainer[i] ELSE <<>>],
                  mSize          |-> m.mSize,
                  mBeginIterator |-> IF m.mSize = 0 THEN newSize - 1
                                     ELSE Min(m.mBeginIterator, newSize - 1)],
     resizes |-> 1]

\* mutant: mSize is not taken over from the new table after clear()
resizeLosesSize(m, newSize) ==
    LET newContainer == [mContainer     |-> EmptyContainer(newSize),
                         mSize          |-> 0,
                         mBeginIterator |-> newSize - 1]
        filled       == InsertAll(newContainer, Range(m, begin(m)), 0)
    IN  [map     |-> [mContainer     |-> filled.map.mContainer,
                      mSize          |-> 0,
                      mBeginIterator |-> filled.map.mBeginIterator],
         resizes |-> filled.resizes + 1]

resize(m, newSize) ==
    LET newContainer == [mContainer     |-> EmptyContainer(newSize),
                         mSize          |-> 0,
                         mBeginIterator |-> newSize - 1]
        filled       == InsertAll(newContainer, Range(m, begin(m)), 0)
    IN  [map     |-> [mContainer     |-> filled.map.mContainer,
                      mSize          |-> filled.map.mSize,
                      mBeginIterator |-> filled.map.mBeginIterator],
         resizes |-> filled.resizes + 1]

\* ------------------------------------------------------------------- erase
\* std::find_if(from, mContainer.end(), non-empty): BucketCount(m) is end()
FindNonEmpty(m, b) ==
    Least({j \in b..BucketCount(m) :
              j = BucketCount(m) \/ Bucket(m, j) # <<>>})

\* forward_list::remove(value): drops every node equal to value (key and value)
remove(chain, value) == SelectSeq(chain, LAMBDA e : e # value)

\* mutant: erasing the last entry empties the table without clear()
eraseNoClear(m, key) ==
    LET keyHash == mHasher(key) % BucketCount(m)
        p       == ScanChain(Bucket(m, keyHash), key, 1)
    IN  IF p = 0
        THEN [map |-> m, resizes |-> 0]
        ELSE LET removed == [m EXCEPT
                               !.mContainer[keyHash + 1] = remove(@, @[p]),
                               !.mSize = @ - 1]
                 moved   == IF /\ removed.mBeginIterator = keyHash
                               /\ Bucket(removed, keyHash) = <<>>
                            THEN [removed EXCEPT !.mBeginIterator =
                                     FindNonEmpty(removed, removed.mBeginIterator)]
                            ELSE removed
             IN  IF empty(removed)
                 THEN [map |-> [removed EXCEPT !.mBeginIterator = BucketCount(m) - 1],
                       resizes |-> 0]
                 ELSE IF size(moved) * maxLoadFactor <= BucketCount(moved) \div maxLoadFactor
                      THEN resize(moved, BucketCount(moved) \div maxLoadFactor)
                      ELSE [map |-> moved, resizes |-> 0]

\* mutant: the shrink check also runs when the key was not found
eraseShrinkOnMiss(m, key) ==
    LET keyHash == mHasher(key) % BucketCount(m)
        p       == ScanChain(Bucket(m, keyHash), key, 1)
    IN  IF p = 0
        THEN IF size(m) * maxLoadFactor <= BucketCount(m) \div maxLoadFactor
             THEN resize(m, BucketCount(m) \div maxLoadFactor)
             ELSE [map |-> m, resizes |-> 0]
        ELSE LET removed == [m EXCEPT
                               !.mContainer[keyHash + 1] = remove(@, @[p]),
                               !.mSize = @ - 1]
                 moved   == IF /\ removed.mBeginIterator = keyHash
                               /\ Bucket(removed, keyHash) = <<>>
                            THEN [removed EXCEPT !.mBeginIterator =
                                     FindNonEmpty(removed, removed.mBeginIterator)]
                            ELSE removed
             IN  IF empty(removed)
                 THEN [map |-> clear(removed), resizes |-> 0]
                 ELSE IF size(moved) * maxLoadFactor <= BucketCount(moved) \div maxLoadFactor
                      THEN resize(moved, BucketCount(moved) \div maxLoadFactor)
                      ELSE [map |-> moved, resizes |-> 0]

erase(m, key) ==
    LET keyHash == mHasher(key) % BucketCount(m)
        p       == ScanChain(Bucket(m, keyHash), key, 1)
    IN  IF p = 0
        THEN [map |-> m, resizes |-> 0]
        ELSE LET removed == [m EXCEPT
                               !.mContainer[keyHash + 1] = remove(@, @[p]),
                               !.mSize = @ - 1]
                 moved   == IF /\ removed.mBeginIterator = keyHash
                               /\ Bucket(removed, keyHash) = <<>>
                            THEN [removed EXCEPT !.mBeginIterator =
                                     FindNonEmpty(removed, removed.mBeginIterator)]
                            ELSE removed
             IN  IF empty(removed)
                 THEN [map |-> clear(removed), resizes |-> 0]
                 ELSE IF size(moved) * maxLoadFactor <= BucketCount(moved) \div maxLoadFactor
                      THEN resize(moved, BucketCount(moved) \div maxLoadFactor)
                      ELSE [map |-> moved, resizes |-> 0]

\* ----------------------------------------------------- operator[] and at
\* operator[](key): [map, resizes, it]; it is the position of the returned
\* reference (find(key) before the insert if present, find(key) after it if not)
\* mutant: after the insert the new node is taken to be the head of its chain
operatorIndexHead(m, key) ==
    LET iter == find(m, key)
    IN  IF iter = end(m)
        THEN LET r == insert(m, <<key, DefaultValue>>)
             IN  [map |-> r.map, resizes |-> r.resizes,
                  it |-> [mContainerIterator |-> mHasher(key) % BucketCount(r.map),
                          mBucketIterator    |-> 1]]
        ELSE [map |-> m, resizes |-> 0, it |-> iter]

operatorIndex(m, key) ==
    LET iter == find(m, key)
    IN  IF iter = end(m)
        THEN LET r == insert(m, <<key, DefaultValue>>)
             IN  [map |-> r.map, resizes |-> r.resizes, it |-> find(r.map, key)]
        ELSE [map |-> m, resizes |-> 0, it |-> iter]

\* assignment through a TValue& obtained at position it
Store(m, it, value) ==
    [m EXCEPT !.mContainer[it.mContainerIterator + 1][it.mBucketIterator][2] = value]

\* at(key): the value, or std::out_of_range
\* mutant: at answers a default value for an absent key
atNoThrow(m, key) ==
    LET iter == find(m, key)
    IN  IF iter = end(m)
        THEN [err |-> "", value |-> DefaultValue]
        ELSE [err |-> "", value |-> deref(m, iter)[2]]

at(m, key) ==
    LET iter == find(m, key)
    IN  IF iter = end(m)
        THEN [err |-> "out_of_range", value |-> DefaultValue]
        ELSE [err |-> "", value |-> deref(m, iter)[2]]

\* ------------------------------------------------------------ construction
\* HashMap(begin, end, hash): HashMap(hash); resize(distance); insert each
HashMapRange(nodes) ==
    LET sized == resize(HashMap, Len(nodes))
    IN  InsertAll(sized.map, nodes, sized.resizes)

\* HashMap(const HashMap& other)
HashMapCopy(other) == HashMapRange(Range(other, begin(other)))

\* operator=(other), this # &other: clear(); resize(other.size()); insert each
operatorAssign(this, other) ==
    LET sized == resize(clear(this), size(other))
    IN  InsertAll(sized.map, Range(other, begin(other)), sized.resizes)

\* --------------------------------------------------- reference abstract map
AbsInsert(f, k, v) ==
    IF k \in DOMAIN f THEN f
    ELSE [x \in DOMAIN f \cup {k} |-> IF x = k THEN v ELSE f[x]]

AbsErase(f, k) == [x \in DOMAIN f \ {k} |-> f[x]]

AbsAssign(f, k, v) == [x \in DOMAIN f \cup {k} |-> IF x = k THEN v ELSE f[x]]

RECURSIVE AbsInsertAll(_, _)
AbsInsertAll(f, nodes) ==
    IF nodes = <<>> THEN f
    ELSE AbsInsertAll(AbsInsert(f, Head(nodes)[1], Head(nodes)[2]), Tail(nodes))

AbsEmpty == [x \in {} |-> DefaultValue]

\* ------------------------------------------------------------------ actions
NoIt == [mContainerIterator |-> 0, mBucketIterator |-> 0]

\* does map m hold key (a table without buckets holds nothing)
Contains(m, key) == BucketCount(m) > 0 /\ find(m, key) # end(m)

\* the record of a call: its arguments, what it returned (val, err, it), how
\* many resize() calls it made, and the bucket count, size and presence of
\* the key in the map it was called on
Called(op, id, src, key, val, err, resizes, it) ==
    last' = [op |-> op, id |-> id, src |-> src, key |-> key, val |-> val,
             err |-> err, resizes |-> resizes, it |-> it,
             n0 |-> BucketCount(maps[id]), size0 |-> size(maps[id]),
             had |-> key \in Keys /\ Contains(maps[id], key)]

Done(op, id, key, val, err, resizes, it) ==
    Called(op, id, id, key, val, err, resizes, it)

\* an operation that divides by mContainer.size() = 0 or reads through the
\* cursor of a table without buckets ends the program
Crash(op, id, key) ==
    /\ crashed' = TRUE
    /\ Done(op, id, key, DefaultValue, "crash", 0, NoIt)
    /\ UNCHANGED <<maps, ref>>

Init ==
    /\ maps = [id \in MapIds |-> HashMap]
    /\ crashed = FALSE
    /\ last = [op |-> "construct", id |-> "m", src |-> "m", key |-> 0,
               val |-> DefaultValue, err |-> "", resizes |-> 0, it |-> NoIt,
               n0 |-> 0, size0 |-> 0, had |-> FALSE]
    /\ ref = [id \in MapIds |-> AbsEmpty]
    /\ steps = 0
    /\ order = <<>>
    /\ stack = <<>>

Insert(id, k, v) ==
    /\ ~crashed
    /\ IF BucketCount(maps[id]) = 0
       THEN Crash("insert", id, k)
       ELSE LET r == insert(maps[id], <<k, v>>)
            IN  /\ maps' = [maps EXCEPT ![id] = r.map]
                /\ ref' = [ref EXCEPT ![id] = AbsInsert(@, k, v)]
                /\ Done("insert", id, k, v, "", r.resizes, NoIt)
                /\ UNCHANGED crashed

Erase(id, k) ==
    /\ ~crashed
    /\ IF BucketCount(maps[id]) = 0
       THEN Crash("erase", id, k)
       ELSE LET r == erase(maps[id], k)
            IN  /\ maps' = [maps EXCEPT ![id] = r.map]
                /\ ref' = [ref EXCEPT ![id] = AbsErase(@, k)]
                /\ Done("erase", id, k, DefaultValue, "", r.resizes, NoIt)
                /\ UNCHANGED crashed

\* maps[id][k] = v
IndexAssign(id, k, v) ==
    /\ ~crashed
    /\ IF BucketCount(maps[id]) = 0
       THEN Crash("index_assign", id, k)
       ELSE LET r == operatorIndex(maps[id], k)
            IN  /\ maps' = [maps EXCEPT ![id] = Store(r.map, r.it, v)]
                /\ ref' = [ref EXCEPT ![id] = AbsAssign(@, k, v)]
                /\ Done("index_assign", id, k, v, "", r.resizes, r.it)
                /\ UNCHANGED crashed

\* reading maps[id][k]
IndexRead(id, k) ==
    /\ ~crashed
    /\ IF BucketCount(maps[id]) = 0
       THEN Crash("index", id, k)
       ELSE LET r == operatorIndex(maps[id], k)
            IN  /\ maps' = [maps EXCEPT ![id] = r.map]
                /\ ref' = [ref EXCEPT ![id] = AbsInsert(@, k, DefaultValue)]
                /\ Done("index", id, k, deref(r.map, r.it)[2], "", r.resizes, r.it)
                /\ UNCHANGED crashed

At(id, k) ==
    /\ ~crashed
    /\ IF BucketCount(maps[id]) = 0
       THEN Crash("at", id, k)
       ELSE LET r == at(maps[id], k)
            IN  /\ Done("at", id, k, r.value, r.err, 0, NoIt)
                /\ UNCHANGED <<maps, ref, crashed>>

Find(id, k) ==
    /\ ~crashed
    /\ IF BucketCount(maps[id]) = 0
       THEN Crash("find", id, k)
       ELSE /\ Done("find", id, k, DefaultValue, "", 0, find(maps[id], k))
            /\ UNCHANGED <<maps, ref, crashed>>

Clear(id) ==
    /\ ~crashed
    /\ maps' = [maps EXCEPT ![id] = clear(@)]
    /\ ref' = [ref EXCEPT ![id] = AbsEmpty]
    /\ Done("clear", id, 0, DefaultValue, "", 0, NoIt)
    /\ UNCHANGED crashed

Resize(id, n) ==
    /\ ~crashed
    /\ IF BucketCount(maps[id]) = 0
       THEN Crash("resize", id, n)
       ELSE LET r == resize(maps[id], n)
            IN  /\ maps' = [maps EXCEPT ![id] = r.map]
                /\ Done("resize", id, n, DefaultValue, "", r.resizes, NoIt)
                /\ UNCHANGED <<ref, crashed>>

\* the single-map program makes any number of calls
Hold == UNCHANGED <<steps, order, stack>>

\* the single-map program: every operation on the map "m"
Next ==
    \/ \E k \in Keys, v \in Values : Insert("m", k, v) /\ Hold
    \/ \E k \in Keys : Erase("m", k) /\ Hold
    \/ \E k \in Keys, v \in Values : IndexAssign("m", k, v) /\ Hold
    \/ \E k \in Keys : IndexRead("m", k) /\ Hold
    \/ \E k \in Keys : At("m", k) /\ Hold
    \/ \E k \in Keys : Find("m", k) /\ Hold
    \/ Clear("m") /\ Hold
    \/ \E n \in 1..MaxResize : Resize("m", n) /\ Hold

Spec == Init /\ [][Next]_vars

\* --------------------------------------------- the program with insert order
\* the call that has just returned is recorded in order: an insert (direct or
\* through operator[]) that added its key appends the key, an erase drops
\* its key, clear drops all
Stamp ==
    /\ UNCHANGED <<steps, stack>>
    /\ order' = IF last'.err # "" THEN order
                ELSE IF last'.op \in {"insert", "index", "index_assign"} /\ ~last'.had
                THEN Append(order, last'.key)
                ELSE IF last'.op = "erase"
                THEN SelectSeq(order, LAMBDA k : k # last'.key)
                ELSE IF last'.op = "clear" THEN <<>>
                ELSE order

\* the single-map program with the order of the insert calls recorded
NextOrder ==
    \/ \E k \in Keys, v \in Values : Insert("m", k, v) /\ Stamp
    \/ \E k \in Keys : Erase("m", k) /\ Stamp
    \/ \E k \in Keys : IndexRead("m", k) /\ Stamp
    \/ Clear("m") /\ Stamp
    \/ \E n \in 1..MaxResize : Resize("m", n) /\ Stamp

SpecOrder == Init /\ [][NextOrder]_vars

\* --------------------------------------------- construction and copy actions
\* sequences of at most n nodes
Lists(n) == UNION {[1..len -> Keys \X Values] : len \in 0..n}

\* maps[id] is destroyed and constructed again from the sequence nodes
RangeConstruct(id, nodes) ==
    /\ ~crashed
    /\ LET r == HashMapRange(nodes)
       IN  /\ maps' = [maps EXCEPT ![id] = r.map]
           /\ ref' = [ref EXCEPT ![id] = AbsInsertAll(AbsEmpty, nodes)]
           /\ Done("range_construct", id, Len(nodes), DefaultValue, "", r.resizes, NoIt)
           /\ UNCHANGED crashed

\* maps[id] is destroyed and constructed again as a copy of maps[src]
CopyConstruct(id, src) ==
    /\ ~crashed
    /\ id # src
    /\ IF BucketCount(maps[src]) = 0
       THEN Crash("copy_construct", id, 0)
       ELSE LET r == HashMapCopy(maps[src])
            IN  /\ maps' = [maps EXCEPT ![id] = r.map]
                /\ ref' = [ref EXCEPT ![id] = ref[src]]
                /\ Called("copy_construct", id, src, 0, DefaultValue, "", r.resizes, NoIt)
                /\ UNCHANGED crashed

\* maps[id] = maps[src]
CopyAssign(id, src) ==
    /\ ~crashed
    /\ IF id = src
       THEN /\ Called("copy_assign", id, src, 0, DefaultValue, "", 0, NoIt)
            /\ UNCHANGED <<maps, ref, crashed>>
       ELSE IF BucketCount(maps[src]) = 0
       THEN Crash("copy_assign", id, 0)
       ELSE LET r == operatorAssign(maps[id], maps[src])
            IN  /\ maps' = [maps EXCEPT ![id] = r.map]
                /\ ref' = [ref EXCEPT ![id] = ref[src]]
                /\ Called("copy_assign", id, src, 0, DefaultValue, "", r.resizes, NoIt)
                /\ UNCHANGED crashed

\* the two-map program makes at most MaxSteps calls
Tick == steps < MaxSteps /\ steps' = steps + 1 /\ UNCHANGED <<order, stack>>

\* the program with two maps: "m" is filled, "c" is built from a sequence or
\* as a copy of "m", and then both are used
NextCopy ==
    \/ \E k \in Keys, v \in Values : Tick /\ Insert("m", k, v)
    \/ \E k \in Keys : Tick /\ Erase("m", k)
    \/ \E nodes \in Lists(MaxListLen) : Tick /\ RangeConstruct("c", nodes)
    \/ Tick /\ CopyConstruct("c", "m")
    \/ \E id, src \in MapIds : Tick /\ CopyAssign(id, src)
    \/ \E k \in Keys, v \in Values : Tick /\ Insert("c", k, v)
    \/ \E k \in Keys : Tick /\ Erase("c", k)
    \/ \E k \in Keys, v \in Values : Tick /\ IndexAssign("c", k, v)
    \/ \E k \in Keys : Tick /\ At("c", k)
    \/ Tick /\ Clear("c")

SpecCopy == Init /\ [][NextCopy]_vars

\* ----------------------------------- the program that builds, uses and copies
\* the program has not yet taken its copy
Running ==
    /\ last.op \notin {"copy_construct", "copy_assign"}
    /\ UNCHANGED <<steps, order, stack>>

\* the program whose map "m" is default-constructed or built from a sequence,
\* then takes any number of calls, and is copied into "c" at the end
NextBuild ==
    \/ \E nodes \in Lists(MaxListLen) :
          last.op = "construct" /\ RangeConstruct("m", nodes) /\ Running
    \/ \E k \in Keys, v \in Values : Insert("m", k, v) /\ Running
    \/ \E k \in Keys : Erase("m", k) /\ Running
    \/ \E k \in Keys : IndexRead("m", k) /\ Running
    \/ Clear("m") /\ Running
    \/ \E n \in 1..MaxResize : Resize("m", n) /\ Running
    \/ CopyConstruct("c", "m") /\ Running
    \/ CopyAssign("c", "m") /\ Running

SpecBuild == Init /\ [][NextBuild]_vars

\* ------------------------------------ the rebuild recursion, one call a step
\* insert up to its grow check: the map after the push (unchanged if the key
\* is present) and whether the grow check asks for a resize
insertBody(m, node) ==
    IF find(m, node[1]) # end(m)
    THEN [map |-> m, grow |-> FALSE]
    ELSE LET keyHash == mHasher(node[1]) % BucketCount(m)
             pushed  == [m EXCEPT
                           !.mContainer[keyHash + 1] = <<node>> \o @,
                           !.mSize = @ + 1,
                           !.mBeginIterator = Min(@, keyHash)]
         IN  [map |-> pushed,
              grow |-> maxLoadFactor * size(pushed) >= BucketCount(pushed)]

\* mutant: the grow asks for a table of the same size
growTargetSame(m) == BucketCount(m)

\* the argument of the resize call of a grow
growTarget(m) == BucketCount(m) * maxLoadFactor

\* erase of a present key up to its shrink check: the map after the removal
\* and the cursor re-scan (after clear() if it is empty now) and whether the
\* shrink check asks for a resize
eraseBody(m, key) ==
    LET keyHash == mHasher(key) % BucketCount(m)
        p       == ScanChain(Bucket(m, keyHash), key, 1)
        removed == [m EXCEPT
                      !.mContainer[keyHash + 1] = remove(@, @[p]),
                      !.mSize = @ - 1]
        moved   == IF /\ removed.mBeginIterator = keyHash
                      /\ Bucket(removed, keyHash) = <<>>
                   THEN [removed EXCEPT !.mBeginIterator =
                            FindNonEmpty(removed, removed.mBeginIterator)]
                   ELSE removed
    IN  IF empty(removed)
        THEN [map |-> clear(removed), shrink |-> FALSE]
        ELSE [map |-> moved,
              shrink |-> size(moved) * maxLoadFactor
                            <= BucketCount(moved) \div maxLoadFactor]

\* the argument of the resize call of a shrink
shrinkTarget(m) == BucketCount(m) \div maxLoadFactor

\* a resize(newSize) call on table self that has built newContainer and is
\* about to walk self: new is newContainer, todo the entries still to insert
Frame(self, newSize) ==
    [new  |-> [mContainer     |-> EmptyContainer(newSize),
               mSize          |-> 0,
               mBeginIterator |-> newSize - 1],
     todo |-> Range(self, begin(self))]

\* the innermost resize call in progress
Top == stack[Len(stack)]

\* m.insert({k, v}) is called: it returns at once or enters resize
CallInsert(k, v) ==
    /\ stack = <<>> /\ ~crashed
    /\ LET r == insertBody(maps["m"], <<k, v>>)
       IN  /\ maps' = [maps EXCEPT !["m"] = r.map]
           /\ ref' = [ref EXCEPT !["m"] = AbsInsert(@, k, v)]
           /\ stack' = IF r.grow THEN <<Frame(r.map, growTarget(r.map))>> ELSE <<>>
           /\ Done("insert", "m", k, v, "", IF r.grow THEN 1 ELSE 0, NoIt)
    /\ UNCHANGED <<crashed, steps, order>>

\* m.erase(k) is called: it returns at once or enters resize
CallErase(k) ==
    /\ stack = <<>> /\ ~crashed
    /\ IF ~Contains(maps["m"], k)
       THEN /\ Done("erase", "m", k, DefaultValue, "", 0, NoIt)
            /\ UNCHANGED <<maps, ref, stack>>
       ELSE LET r == eraseBody(maps["m"], k)
            IN  /\ maps' = [maps EXCEPT !["m"] = r.map]
                /\ ref' = [ref EXCEPT !["m"] = AbsErase(@, k)]
                /\ stack' = IF r.shrink
                            THEN <<Frame(r.map, shrinkTarget(r.map))>>
                            ELSE <<>>
                /\ Done("erase", "m", k, DefaultValue, "", IF r.shrink THEN 1 ELSE 0, NoIt)
    /\ UNCHANGED <<crashed, steps, order>>

\* m.resize(n) is called
CallResize(n) ==
    /\ stack = <<>> /\ ~crashed
    /\ stack' = <<Frame(maps["m"], n)>>
    /\ Done("resize", "m", n, DefaultValue, "", 1, NoIt)
    /\ UNCHANGED <<maps, ref, crashed, steps, order>>

\* one pass of the loop of the innermost resize: newContainer.insert(i),
\* which enters resize on newContainer if its grow check asks for it
RebuildInsert ==
    /\ stack # <<>> /\ Top.todo # <<>>
    /\ LET r    == insertBody(Top.new, Head(Top.todo))
           top  == [new |-> r.map, todo |-> Tail(Top.todo)]
           rest == SubSeq(stack, 1, Len(stack) - 1)
       IN  IF r.grow
           THEN /\ Len(stack) < MaxDepth
                /\ stack' = rest \o <<top, Frame(r.map, growTarget(r.map))>>
                /\ last' = [last EXCEPT !.resizes = @ + 1]
           ELSE /\ stack' = rest \o <<top>>
                /\ UNCHANGED last
    /\ UNCHANGED <<maps, crashed, ref, steps, order>>

\* the loop of the innermost resize is over: the table it was called on
\* takes the container, size and cursor of newContainer, and resize returns
RebuildReturn ==
    /\ stack # <<>> /\ Top.todo = <<>>
    /\ IF Len(stack) = 1
       THEN /\ maps' = [maps EXCEPT !["m"] = Top.new]
            /\ stack' = <<>>
       ELSE /\ stack' = SubSeq(stack, 1, Len(stack) - 2)
                           \o <<[stack[Len(stack) - 1] EXCEPT !.new = Top.new]>>
            /\ UNCHANGED maps
    /\ UNCHANGED <<crashed, last, ref, steps, order>>

\* the single-map program with the rebuild recursion followed call by call
NextRebuild ==
    \/ \E k \in Keys, v \in Values : CallInsert(k, v)
    \/ \E k \in Keys : CallErase(k)
    \/ \E n \in 1..MaxResize : CallResize(n)
    \/ RebuildInsert
    \/ RebuildReturn

\* a call in progress keeps running: the code is sequential
SpecRebuild ==
    Init /\ [][NextRebuild]_vars /\ WF_vars(RebuildInsert) /\ WF_vars(RebuildReturn)

\* ------------------------------------------------------ views of the state
\* indices of the non-empty buckets
Occupied(m) == {b \in 0..(BucketCount(m) - 1) : Bucket(m, b) # <<>>}

\* the chains of the buckets in B, concatenated in ascending bucket index
RECURSIVE Flatten(_, _)
Flatten(m, B) ==
    IF B = {} THEN <<>>
    ELSE Bucket(m, Least(B)) \o Flatten(m, B \ {Least(B)})

\* every node of the table, bucket by bucket, head to tail
Nodes(m) == Flatten(m, Occupied(m))

\* what a caller sees when looking key up with find
Lookup(m, key) ==
    IF BucketCount(m) = 0 THEN <<"crash", DefaultValue>>
    ELSE IF find(m, key) = end(m) THEN <<"absent", DefaultValue>>
    ELSE <<"value", deref(m, find(m, key))[2]>>

\* what the reference map holds for key
AbsLookup(f, key) ==
    IF key \in DOMAIN f THEN <<"value", f[key]>> ELSE <<"absent", DefaultValue>>

\* ================================================================== claims
\* the map an operation was called on, as it is now
Target == maps[last.id]

\* the iterators begin(), ++begin(), ... of at most n advances, stopping at end()
RECURSIVE Walk(_, _, _)
Walk(m, it, n) ==
    IF n = 0 \/ it = end(m)
    THEN <<it>>
    ELSE <<it>> \o Walk(m, operatorInc(m, it), n - 1)

\* the sum of the chain lengths of the buckets in B
RECURSIVE ChainSum(_, _)
ChainSum(m, B) ==
    IF B = {} THEN 0
    ELSE Len(Bucket(m, Least(B))) + ChainSum(m, B \ {Least(B)})

\* C1: after any sequence of insert, erase, operator[] (with assignment),
\* clear and resize(n >= 1), find(k) yields for every key exactly the value
\* the reference map holds (insert adds only if absent, erase removes,
\* index-assign overwrites), and end() exactly when the reference has no k.
C1_FindMatchesReference ==
    \A k \in Keys : Lookup(maps["m"], k) = AbsLookup(ref["m"], k)

\* C1 witness: an erase has rebuilt the table and the map still holds an
\* overwritten value next to an absent key
C1_Witness ==
    /\ last.op = "erase" /\ last.resizes >= 1
    /\ \E k \in Keys : Lookup(maps["m"], k) = <<"value", 2>>
    /\ \E k \in Keys : Lookup(maps["m"], k) = <<"absent", DefaultValue>>
    /\ \E k \in Keys : Lookup(maps["m"], k) = <<"value", DefaultValue>>

\* C2: no two entries of the table, in the same or in different buckets,
\* have the same key.
C2_KeysUnique ==
    LET all == Nodes(maps["m"])
    IN  \A i, j \in 1..Len(all) : i # j => all[i][1] # all[j][1]

\* C2 witness: right after a rebuild, two entries share a bucket and a third
\* lies elsewhere
C2_Witness ==
    /\ last.resizes >= 1
    /\ size(maps["m"]) = 3
    /\ \E b \in Occupied(maps["m"]) : Len(Bucket(maps["m"], b)) = 2

\* C3: insert(k, v2) on a map that contains k changes nothing (value of k,
\* other entries, size, bucket count, cursor) and makes no resize() call.
C3_InsertExistingNoOp ==
    [][(last'.op = "insert" /\ Contains(maps[last'.id], last'.key))
          => (maps' = maps /\ last'.resizes = 0)]_vars

\* C3 witness: insert was called with a value other than the stored one
C3_Witness ==
    /\ last.op = "insert" /\ last.had
    /\ Lookup(Target, last.key) # <<"value", last.val>>
    /\ size(Target) >= 2

\* C4: size() equals the sum of the chain lengths; an insert of an absent key
\* raises it by 1, an erase of a present key lowers it by 1, resize keeps it.
C4_SizeIsChainSum ==
    /\ size(maps["m"]) = ChainSum(maps["m"], Occupied(maps["m"]))
    /\ (last.op = "insert" /\ ~last.had) => size(Target) = last.size0 + 1
    /\ (last.op = "erase" /\ last.had) => size(Target) = last.size0 - 1
    /\ (last.op = "erase" /\ ~last.had) => size(Target) = last.size0
    /\ last.op = "resize" => size(Target) = last.size0

\* C4 witness: an erase of a present key that rebuilt a table of three entries
C4_Witness ==
    /\ last.op = "erase" /\ last.had /\ last.resizes >= 1
    /\ last.size0 = 3 /\ size(Target) = 2

\* C5: from begin(), operator++ reaches end() after exactly size() advances
\* and visits every entry once, by ascending bucket and head to tail;
\* begin() = end() exactly when the map is empty.
C5_IterationVisitsAll ==
    LET m == maps["m"]
        w == Walk(m, begin(m), size(m))
    IN  /\ Len(w) = size(m) + 1
        /\ w[Len(w)] = end(m)
        /\ \A j \in 1..size(m) : w[j] # end(m)
        /\ [j \in 1..size(m) |-> deref(m, w[j])] = Nodes(m)
        /\ (begin(m) = end(m)) <=> empty(m)

\* C5 witness: three entries, two of them in one chain, the last bucket occupied
C5_Witness ==
    LET m == maps["m"]
    IN  /\ size(m) = 3
        /\ Bucket(m, BucketCount(m) - 1) # <<>>
        /\ \E b \in Occupied(m) : Len(Bucket(m, b)) = 2

\* C6: an erase that removes the last entry leaves initialSize buckets,
\* size 0 and begin() = end(), whatever the bucket count was before.
C6_EmptyReset ==
    (last.op = "erase" /\ last.had /\ last.size0 = 1)
        => /\ BucketCount(Target) = initialSize
           /\ size(Target) = 0
           /\ begin(Target) = end(Target)

\* C6 witness: the last entry was erased from a table of another bucket count
C6_Witness ==
    /\ last.op = "erase" /\ last.had /\ last.size0 = 1
    /\ last.n0 # initialSize

\* C7: every map has at least one bucket, however it was constructed,
\* copied, assigned or modified.
C7_BucketCountPositive ==
    \A id \in MapIds : BucketCount(maps[id]) >= 1

\* C8: a copy construction or copy assignment leaves the source as it was
\* and gives the target the source's size and, for every key, the source's
\* answer to find; a later insert, erase or operator[] assignment on the copy
\* changes nothing in the source.
C8_CopyHasSourceContents ==
    [][/\ (last'.op \in {"copy_construct", "copy_assign"} /\ last'.err = "") =>
            /\ maps'[last'.src] = maps[last'.src]
            /\ size(maps'[last'.id]) = size(maps'[last'.src])
            /\ \A k \in Keys :
                  Lookup(maps'[last'.id], k) = Lookup(maps'[last'.src], k)
       /\ (last'.op \in {"insert", "erase", "index_assign"} /\ last'.id = "c") =>
            maps'["m"] = maps["m"]
      ]_vars

\* C9: at(k) returns the stored value if k is present and fails with
\* out_of_range if not, changing nothing; find, erase and operator[] never fail.
C9_AtThrowsOnlyWhenAbsent ==
    [][/\ last'.op = "at" =>
            /\ maps' = maps
            /\ IF Contains(maps[last'.id], last'.key)
               THEN /\ last'.err = ""
                    /\ <<"value", last'.val>> = Lookup(maps[last'.id], last'.key)
               ELSE last'.err = "out_of_range"
       /\ last'.op \in {"find", "erase", "index", "index_assign"} => last'.err = ""
      ]_vars

\* C9 witness: at failed for an absent key of a non-empty map
C9_Witness ==
    /\ last.op = "at" /\ last.err = "out_of_range"
    /\ size(Target) >= 1

\* C10: operator[](k) without k adds the one entry (k, TValue{}), raises size
\* by 1 and returns a reference to that entry in the current table, also
\* after a grow; with k present it adds nothing, keeps size and bucket count
\* and refers to the existing value.
C10_IndexRefersToStoredEntry ==
    [][last'.op \in {"index", "index_assign"} =>
         LET before == maps[last'.id]
             after  == maps'[last'.id]
             k      == last'.key
             it     == last'.it
         IN  /\ it.mContainerIterator \in 0..(BucketCount(after) - 1)
             /\ it.mBucketIterator \in 1..Len(Bucket(after, it.mContainerIterator))
             /\ deref(after, it)[1] = k
             /\ deref(after, it)[2] = last'.val
             /\ \A k2 \in Keys \ {k} : Lookup(after, k2) = Lookup(before, k2)
             /\ IF Contains(before, k)
                THEN /\ size(after) = size(before)
                     /\ BucketCount(after) = BucketCount(before)
                     /\ last'.resizes = 0
                     /\ last'.op = "index" => after = before
                ELSE /\ size(after) = size(before) + 1
                     /\ last'.op = "index" => last'.val = DefaultValue
      ]_vars

\* C10 witness: operator[] added a key, the insert grew the table, and the
\* new entry is not the head of its chain
C10_Witness ==
    /\ last.op \in {"index", "index_assign"} /\ ~last.had
    /\ last.resizes >= 1
    /\ BucketCount(Target) > last.n0
    /\ last.it.mBucketIterator = 2

\* C11: erase(k) on a map that does not contain k changes nothing (entries,
\* values, size, bucket count, cursor) and makes no resize() call, also when
\* the shrink condition holds at the time of the call.
C11_EraseAbsentNoOp ==
    [][(last'.op = "erase" /\ last'.err = "" /\ ~Contains(maps[last'.id], last'.key))
          => (maps' = maps /\ last'.resizes = 0)]_vars

\* C11 witness: erase of an absent key on a non-empty map whose size meets
\* the shrink condition
C11_Witness ==
    /\ last.op = "erase" /\ ~last.had /\ last.err = ""
    /\ size(Target) >= 1
    /\ size(Target) * maxLoadFactor <= BucketCount(Target) \div maxLoadFactor

\* C12: after resize(n) with n >= 1, on an empty or a populated map, the
\* bucket count is exactly n, whatever the load.
C12_ResizeSetsBucketCount ==
    (last.op = "resize" /\ last.err = "") => BucketCount(Target) = last.key

\* C13: an insert of an absent key into a table of N buckets, with s the size
\* after it, leaves exactly N * maxLoadFactor buckets if maxLoadFactor * s >= N
\* and N buckets otherwise.
C13_InsertGrowsOnce ==
    (last.op = "insert" /\ last.err = "" /\ ~last.had) =>
        BucketCount(Target) =
            IF maxLoadFactor * size(Target) >= last.n0
            THEN last.n0 * maxLoadFactor
            ELSE last.n0

\* C14: an erase of a present key that leaves the map non-empty, with N the
\* bucket count before and s the size after, leaves exactly
\* N / maxLoadFactor buckets if maxLoadFactor * s <= N / maxLoadFactor
\* (equality included) and N buckets otherwise.
C14_EraseShrinksOnce ==
    (last.op = "erase" /\ last.err = "" /\ last.had /\ size(Target) > 0) =>
        BucketCount(Target) =
            IF maxLoadFactor * size(Target) <= last.n0 \div maxLoadFactor
            THEN last.n0 \div maxLoadFactor
            ELSE last.n0

\* C15: grow and shrink never ping-pong: when an insert has just triggered a
\* grow rebuild, the erase of one present key that follows it at once does
\* not trigger a shrink rebuild.
C15_NoPingPong ==
    [][(/\ last.op = "insert" /\ last.err = "" /\ last.resizes >= 1
        /\ last'.op = "erase" /\ last'.err = "" /\ last'.id = last.id
        /\ last'.had)
          => last'.resizes = 0]_vars

\* C16: in every state the first-occupied cursor mBeginIterator has only
\* empty buckets below it; if the map is non-empty the cursor's bucket is
\* non-empty, and if the map is empty the cursor is the last bucket N - 1.
C16_CursorFirstOccupied ==
    \A id \in MapIds :
        LET m == maps[id]
        IN  /\ m.mBeginIterator \in 0..(BucketCount(m) - 1)
            /\ \A b \in 0..(m.mBeginIterator - 1) : Bucket(m, b) = <<>>
            /\ size(m) > 0 => Bucket(m, m.mBeginIterator) # <<>>
            /\ size(m) = 0 => m.mBeginIterator = BucketCount(m) - 1

\* C16 witness: an erase without rebuild emptied the cursor's bucket of a map
\* that stays non-empty, and the cursor moved forward to a later bucket
C16_Witness ==
    /\ last.op = "erase" /\ last.had /\ last.resizes = 0
    /\ size(Target) > 0
    /\ Target.mBeginIterator > mHasher(last.key) % BucketCount(Target)

\* position of key k in the order of insert calls (later call, higher position)
Pos(k) == CHOOSE p \in 1..Len(order) : order[p] = k

\* C17: every chain is ordered most-recently-inserted first: of two entries
\* of one bucket, the one added by the later insert call comes earlier in the
\* chain, also after grow and shrink rebuilds.
C17_ChainsNewestFirst ==
    \A b \in Occupied(maps["m"]) :
        LET chain == Bucket(maps["m"], b)
        IN  \A i, j \in 1..Len(chain) :
                i < j => Pos(chain[i][1]) > Pos(chain[j][1])

\* C17 as amended: every call that makes no rebuild keeps the chains ordered
\* most-recently-inserted first (insert puts the new entry at the head of
\* its chain, erase keeps the order of the others).
C17_NewestFirstWithoutRebuild ==
    [][(C17_ChainsNewestFirst /\ last'.resizes = 0 /\ last'.op # "resize")
          => C17_ChainsNewestFirst']_vars

\* C17 witness: an insert without rebuild added its key in front of an
\* entry already in the bucket
C17_Witness ==
    /\ last.op = "insert" /\ ~last.had /\ last.resizes = 0
    /\ C17_ChainsNewestFirst
    /\ LET chain == Bucket(Target, mHasher(last.key) % BucketCount(Target))
       IN  Len(chain) >= 2 /\ chain[1][1] = last.key

\* C18: after insert, erase, operator[], clear, resize(n >= 1) and a range or
\* copy construction or assignment from a non-empty source have returned,
\* maxLoadFactor * size is strictly below the bucket count.
C18_LoadBelowBucketCount ==
    (/\ last.err = ""
     /\ \/ last.op \in {"insert", "erase", "index", "index_assign", "clear", "resize"}
        \/ last.op = "range_construct" /\ last.key >= 1
        \/ last.op \in {"copy_construct", "copy_assign"} /\ size(maps[last.src]) >= 1)
        => maxLoadFactor * size(Target) < BucketCount(Target)

\* C18 witness: a copy of a map with two or more entries was built with
\* nested rebuilds
C18_Witness ==
    /\ last.op = "copy_construct" /\ last.err = ""
    /\ size(Target) >= 2
    /\ last.resizes >= 2

\* C19: insert, erase and resize(n >= 1) always terminate: whenever resize
\* calls are in progress, nested or not, all of them return.
C19_RebuildTerminates == (stack # <<>>) ~> (stack = <<>>)

\* C19 witness: an erase has returned whose shrink rebuild triggered a grow
C19_Witness ==
    /\ stack = <<>>
    /\ last.op = "erase" /\ last.had
    /\ last.resizes >= 2

====
